---- MODULE Spec2Model ----
(***************************************************************************)
(* The request-body validator of src/middleware/validator.js, as a state   *)
(* machine: one middleware built by validateRequest(schema), the requests  *)
(* it is run on, its loop over the schema fields, the forEach over the     *)
(* elements of an array field, and the two ways a run ends (next() or the  *)
(* 400 response), plus the exception path into errorHandler.  The routes   *)
(* that use it (items, products, orders) and their in-memory stores follow *)
(* at the end, each with a specification of its own.                       *)
(***************************************************************************)
EXTENDS Integers, Sequences, FiniteSets, Bags, TLC

VARIABLES schema, payload, body, errors, pc, fi, ii, err, nextCalls, sent, history,
          itemStore, products, orders, tasks, reply

\* the state of one validator middleware and its request
validatorVars == <<schema, payload, body, errors, pc, fi, ii, err, nextCalls, sent, history>>

\* the in-memory stores of the routes, the handlers suspended at their await,
\* and the last response of a route
storeVars == <<itemStore, products, orders, tasks, reply>>

vars == <<validatorVars, storeVars>>

(***************************************************************************)
(* Bounds of the model.                                                    *)
(***************************************************************************)
\* longest array a payload holds
MaxItems == 2
\* number of times the middleware is run on equal inputs
MaxRuns == 2
\* most records a store holds
MaxStore == 3
\* most orders the order store holds
MaxOrders == 2
\* most handlers suspended at their await at one time
MaxPending == 2

(***************************************************************************)
(* JavaScript values.  A value is a record [t, s, n, a]: t is the kind,    *)
(* s the characters of a string, n the number (or 1/0 for a boolean), a    *)
(* the elements of an array.  An array element is a record [t, s, n, o]:   *)
(* o maps the property names of an object element to values.               *)
(***************************************************************************)
Undefined == [t |-> "undefined", s |-> "", n |-> 0, a |-> <<>>]

Null == [t |-> "null", s |-> "", n |-> 0, a |-> <<>>]

Str(s) == [t |-> "string", s |-> s, n |-> 0, a |-> <<>>]

Num(n) == [t |-> "number", s |-> "", n |-> n, a |-> <<>>]

NaN == [t |-> "NaN", s |-> "", n |-> 0, a |-> <<>>]

\* the numbers JSON.parse gives for 1e999 and -1e999
Infinity == [t |-> "Infinity", s |-> "", n |-> 1, a |-> <<>>]

NegInfinity == [t |-> "Infinity", s |-> "", n |-> -1, a |-> <<>>]

Bool(b) == [t |-> "boolean", s |-> "", n |-> IF b THEN 1 ELSE 0, a |-> <<>>]

Obj == [t |-> "object", s |-> "", n |-> 0, a |-> <<>>]

Arr(a) == [t |-> "array", s |-> "", n |-> 0, a |-> a]

\* typeof value
TypeOf(v) ==
    CASE v.t = "undefined" -> "undefined"
      [] v.t = "string" -> "string"
      [] v.t \in {"number", "NaN", "Infinity"} -> "number"
      [] v.t = "boolean" -> "boolean"
      [] OTHER -> "object"

\* Array.isArray(value)
IsArray(v) == v.t = "array"

\* array elements: null, undefined, a primitive, or an object with properties o
ElemNull(names) == [t |-> "null", s |-> "", n |-> 0, o |-> [f \in names |-> Undefined]]

ElemUndefined(names) == [t |-> "undefined", s |-> "", n |-> 0, o |-> [f \in names |-> Undefined]]

ElemNum(names, n) == [t |-> "number", s |-> "", n |-> n, o |-> [f \in names |-> Undefined]]

ElemObj(o) == [t |-> "object", s |-> "", n |-> 0, o |-> o]

\* item[itemField] raises a TypeError when item is null or undefined
PropThrows(item) == item.t \in {"null", "undefined"}

\* item[itemField] on an object reads the property, on a primitive gives undefined
GetProp(item, f) == IF item.t = "object" THEN item.o[f] ELSE Undefined

(***************************************************************************)
(* Rules and schemas.  A schema is the list Object.entries(schema) of      *)
(* <<field, rules>> pairs, in insertion order (field names are not         *)
(* array-index keys).  An attribute that is not set is NoNum / NoEnum /    *)
(* "" / Undefined / <<>>.                                                  *)
(***************************************************************************)
NoNum == [def |-> FALSE, v |-> 0]

Some(n) == [def |-> TRUE, v |-> n]

NoEnum == [def |-> FALSE, v |-> <<>>]

Enum(vs) == [def |-> TRUE, v |-> vs]

ItemRule ==
    [type |-> "", required |-> FALSE, min |-> NoNum, max |-> NoNum]

Rule ==
    [type |-> "", required |-> FALSE, default |-> Undefined,
     minLength |-> NoNum, maxLength |-> NoNum, pattern |-> "",
     min |-> NoNum, max |-> NoNum, enum |-> NoEnum, items |-> <<>>]

\* POST /users
usersPostSchema ==
    << <<"username", [Rule EXCEPT !.type = "string", !.minLength = Some(3), !.required = TRUE]>>,
       <<"email", [Rule EXCEPT !.type = "email", !.required = TRUE]>>,
       <<"role", [Rule EXCEPT !.type = "string", !.enum = Enum(<<Str("user"), Str("admin")>>),
                              !.default = Str("user")]>> >>

\* PATCH /users/:id
usersPatchSchema ==
    << <<"username", [Rule EXCEPT !.type = "string", !.minLength = Some(3)]>>,
       <<"email", [Rule EXCEPT !.type = "email"]>>,
       <<"role", [Rule EXCEPT !.type = "string", !.enum = Enum(<<Str("user"), Str("admin")>>)]>> >>

\* PATCH /products/:id/stock
stockPatchSchema ==
    << <<"amount", [Rule EXCEPT !.type = "number", !.required = TRUE]>> >>

\* POST /orders
ordersPostSchema ==
    << <<"userId", [Rule EXCEPT !.type = "number", !.required = TRUE]>>,
       <<"items", [Rule EXCEPT !.type = "array", !.required = TRUE, !.minLength = Some(1),
                    !.items = << <<"productId", [ItemRule EXCEPT !.type = "number", !.required = TRUE]>>,
                                 <<"quantity", [ItemRule EXCEPT !.type = "number", !.min = Some(1), !.required = TRUE]>>,
                                 <<"price", [ItemRule EXCEPT !.type = "number", !.min = Some(0), !.required = TRUE]>> >>]>> >>

\* PATCH /orders/:id/status
statusPatchSchema ==
    << <<"status", [Rule EXCEPT !.type = "string", !.required = TRUE,
                     !.enum = Enum(<<Str("pending"), Str("processing"), Str("completed"), Str("cancelled")>>)]>> >>

\* a schema with one nested rule: items: {quantity: {type: 'number', min: 1, required: true}}
lineItemsSchema ==
    << <<"items", [Rule EXCEPT !.type = "array",
                    !.items = << <<"quantity", [ItemRule EXCEPT !.type = "number", !.min = Some(1), !.required = TRUE]>> >>]>> >>

\* schemas that use the remaining rule attributes: boolean, pattern, maxLength,
\* and a default on a required field
flagsSchema ==
    << <<"flag", [Rule EXCEPT !.type = "boolean", !.required = TRUE, !.default = Bool(FALSE)]>>,
       <<"code", [Rule EXCEPT !.type = "string", !.maxLength = Some(2), !.pattern = "^[a-z]+$"]>> >>

\* object, min and max with a default
levelSchema ==
    << <<"meta", [Rule EXCEPT !.type = "object", !.required = TRUE]>>,
       <<"level", [Rule EXCEPT !.type = "number", !.min = Some(0), !.max = Some(1), !.default = Num(0)]>> >>

\* array maxLength, a nested string rule and a nested rule that is not required
tagsSchema ==
    << <<"tags", [Rule EXCEPT !.type = "array", !.maxLength = Some(1),
                   !.items = << <<"label", [ItemRule EXCEPT !.type = "string", !.required = TRUE]>>,
                                <<"weight", [ItemRule EXCEPT !.type = "number", !.max = Some(1)]>> >>]>> >>

\* a default that does not meet its own rule, before a string whose length
\* bounds are both 0
notesSchema ==
    << <<"quota", [Rule EXCEPT !.type = "number", !.min = Some(0), !.default = Num(-1)]>>,
       <<"note", [Rule EXCEPT !.type = "string", !.minLength = Some(0), !.maxLength = Some(0)]>> >>

\* an array that must stay empty
listSchema ==
    << <<"list", [Rule EXCEPT !.type = "array", !.maxLength = Some(0)]>> >>

\* the schemas validateRequest is called with
Schemas ==
    {usersPostSchema, usersPatchSchema, stockPatchSchema, ordersPostSchema,
     statusPatchSchema, lineItemsSchema, flagsSchema, levelSchema, tagsSchema,
     notesSchema, listSchema}

\* the field names of a list of entries
Names(entries) == {entries[k][1] : k \in DOMAIN entries}

(***************************************************************************)
(* Request payloads: every schema field holds one of these values.         *)
(***************************************************************************)
Scalars ==
    {Undefined, Null, Str(""), Str("ab"), Str("a@b.c"), Num(-1), Num(0), Num(2),
     NaN, Bool(TRUE), Obj}

ItemVals ==
    {Undefined, Null, Str(""), Str("x"), Num(0), Num(1), Num(2), NaN}

\* elements of an array: null, undefined, a number, or an object whose
\* properties (the nested schema's fields) all hold the same value
Elems(items) ==
    {ElemNull(Names(items)), ElemUndefined(Names(items)), ElemNum(Names(items), 5)}
      \cup {ElemObj([f \in Names(items) |-> v]) : v \in ItemVals}

RECURSIVE SeqsUpTo(_, _)
SeqsUpTo(S, n) ==
    IF n = 0 THEN {<<>>}
    ELSE LET shorter == SeqsUpTo(S, n - 1)
         IN  shorter \cup {Append(q, e) : q \in {r \in shorter : Len(r) = n - 1}, e \in S}

EnumVals(rules) == {rules.enum.v[k] : k \in DOMAIN rules.enum.v}

ValuesFor(rules) ==
    Scalars \cup EnumVals(rules)
      \cup (IF rules.type = "array"
            THEN {Arr(a) : a \in SeqsUpTo(Elems(rules.items), MaxItems)}
            ELSE {Arr(<<>>)})

\* the bodies that hold a value for each of the fields k..Len(sch)
RECURSIVE PayloadsFrom(_, _)
PayloadsFrom(sch, k) ==
    IF k > Len(sch) THEN {<<>>}
    ELSE {(sch[k][1] :> v) @@ rest : v \in ValuesFor(sch[k][2]), rest \in PayloadsFrom(sch, k + 1)}

\* a body may carry a field the schema does not name
ExtraVals == {Undefined, Str("ab")}

\* the request bodies a schema's middleware is run on
Payloads(sch) ==
    {("extra" :> x) @@ p : x \in ExtraVals, p \in PayloadsFrom(sch, 1)}

(***************************************************************************)
(* Messages.                                                               *)
(***************************************************************************)
\* `Field '${field}'
Field(field) == "Field '" \o field \o "'"

\* `${field}[${index}].${itemField}`, index counted from 0
ItemAddr(field, index, itemField) ==
    field \o "[" \o ToString(index) \o "]." \o itemField

\* the text of an element in Array.prototype.join
Text(v) ==
    CASE v.t = "string" -> v.s
      [] v.t = "number" -> ToString(v.n)
      [] v.t = "NaN" -> "NaN"
      [] v.t = "Infinity" -> (IF v.n > 0 THEN "Infinity" ELSE "-Infinity")
      [] v.t = "boolean" -> (IF v.n = 1 THEN "true" ELSE "false")
      [] v.t = "undefined" -> ""
      [] v.t = "null" -> ""
      [] OTHER -> "[object Object]"

\* rules.enum.join(', ')
RECURSIVE Join(_)
Join(vs) ==
    IF Len(vs) = 0 THEN ""
    ELSE IF Len(vs) = 1 THEN Text(vs[1])
    ELSE Text(vs[1]) \o ", " \o Join(Tail(vs))

\* rules.enum.includes(value): SameValueZero
Includes(vs, v) == \E k \in DOMAIN vs : vs[k] = v

\* one character that is neither white space nor '@'
NotSpaceAt(c) == c \notin {" ", "@"}

AllNotSpaceAt(s, from, to) ==
    /\ from <= to
    /\ \A k \in from..to : NotSpaceAt(SubSeq(s, k, k))

\* /^[^\s@]+@[^\s@]+\.[^\s@]+$/.test(s)
emailRegex(s) ==
    \E at \in 1..Len(s), dot \in 1..Len(s) :
        /\ at < dot
        /\ SubSeq(s, at, at) = "@"
        /\ SubSeq(s, dot, dot) = "."
        /\ AllNotSpaceAt(s, 1, at - 1)
        /\ AllNotSpaceAt(s, at + 1, dot - 1)
        /\ AllNotSpaceAt(s, dot + 1, Len(s))

LowerCase ==
    {"a", "b", "c", "d", "e", "f", "g", "h", "i", "j", "k", "l", "m",
     "n", "o", "p", "q", "r", "s", "t", "u", "v", "w", "x", "y", "z"}

\* rules.pattern.test(value) for the patterns the schemas use
PatternTest(pattern, s) ==
    CASE pattern = "^[a-z]+$" ->
           Len(s) >= 1 /\ \A k \in 1..Len(s) : SubSeq(s, k, k) \in LowerCase
      [] OTHER -> TRUE

\* validateType(value, type, field, errors): ok is the returned boolean,
\* errs the messages pushed
validateType(value, type, field) ==
    CASE type = "string" ->
           IF TypeOf(value) # "string"
           THEN [ok |-> FALSE, errs |-> <<Field(field) \o " must be a string">>]
           ELSE [ok |-> TRUE, errs |-> <<>>]
      [] type = "number" ->
           IF TypeOf(value) # "number" \/ value.t = "NaN"
           THEN [ok |-> FALSE, errs |-> <<Field(field) \o " must be a number">>]
           ELSE [ok |-> TRUE, errs |-> <<>>]
      [] type = "boolean" ->
           IF TypeOf(value) # "boolean"
           THEN [ok |-> FALSE, errs |-> <<Field(field) \o " must be a boolean">>]
           ELSE [ok |-> TRUE, errs |-> <<>>]
      [] type = "array" ->
           IF ~IsArray(value)
           THEN [ok |-> FALSE, errs |-> <<Field(field) \o " must be an array">>]
           ELSE [ok |-> TRUE, errs |-> <<>>]
      [] type = "object" ->
           IF TypeOf(value) # "object" \/ value.t = "null" \/ IsArray(value)
           THEN [ok |-> FALSE, errs |-> <<Field(field) \o " must be an object">>]
           ELSE [ok |-> TRUE, errs |-> <<>>]
      [] type = "email" ->
           IF TypeOf(value) # "string"
           THEN [ok |-> FALSE, errs |-> <<Field(field) \o " must be a string">>]
           ELSE [ok |-> TRUE, errs |-> <<>>]
      [] OTHER -> [ok |-> TRUE, errs |-> <<>>]

(***************************************************************************)
(* The checks of one schema field (one iteration of the for loop).         *)
(***************************************************************************)
\* the required check without the empty string
RequiredFailsNoEmpty(rules, value) ==
    rules.required /\ (value = Undefined \/ value = Null)

\* rules.required && (value === undefined || value === null || value === '')
RequiredFails(rules, value) ==
    rules.required /\ (value = Undefined \/ value = Null \/ value = Str(""))

\* the same test with a loose comparison (value == undefined), true of null too
NotProvidedLoose(rules, value) == value \in {Undefined, Null} /\ ~rules.required

\* value === undefined && !rules.required
NotProvided(rules, value) == value = Undefined /\ ~rules.required

\* a number attribute used as a condition: undefined and 0 are falsy
Truthy(opt) == opt.def /\ opt.v # 0

\* the string validations
StringErrors(field, rules, value) ==
    IF rules.type = "string" /\ TypeOf(value) = "string"
    THEN (IF Truthy(rules.minLength) /\ Len(value.s) < rules.minLength.v
          THEN <<Field(field) \o " must be at least " \o ToString(rules.minLength.v) \o " characters">>
          ELSE <<>>)
         \o (IF Truthy(rules.maxLength) /\ Len(value.s) > rules.maxLength.v
             THEN <<Field(field) \o " must be at most " \o ToString(rules.maxLength.v) \o " characters">>
             ELSE <<>>)
         \o (IF rules.pattern # "" /\ ~PatternTest(rules.pattern, value.s)
             THEN <<Field(field) \o " has invalid format">>
             ELSE <<>>)
    ELSE <<>>

\* value < bound and value > bound of numbers: false of NaN
Less(value, bound) ==
    \/ value.t = "number" /\ value.n < bound
    \/ value = NegInfinity

Greater(value, bound) ==
    \/ value.t = "number" /\ value.n > bound
    \/ value = Infinity

\* the number validations, of a top-level field and of a nested field
NumberErrors(field, rules, value) ==
    IF rules.type = "number" /\ TypeOf(value) = "number"
    THEN (IF rules.min.def /\ Less(value, rules.min.v)
          THEN <<Field(field) \o " must be at least " \o ToString(rules.min.v)>>
          ELSE <<>>)
         \o (IF rules.max.def /\ Greater(value, rules.max.v)
             THEN <<Field(field) \o " must be at most " \o ToString(rules.max.v)>>
             ELSE <<>>)
    ELSE <<>>

\* the email validation with the test the wrong way round
EmailErrorsInverted(field, rules, value) ==
    IF rules.type = "email" /\ emailRegex(Text(value))
    THEN <<Field(field) \o " must be a valid email address">>
    ELSE <<>>

\* the email validation
EmailErrors(field, rules, value) ==
    IF rules.type = "email" /\ ~emailRegex(Text(value))
    THEN <<Field(field) \o " must be a valid email address">>
    ELSE <<>>

\* the enum validation with the membership test the wrong way round
EnumErrorsInverted(field, rules, value) ==
    IF rules.enum.def /\ Includes(rules.enum.v, value)
    THEN <<Field(field) \o " must be one of: " \o Join(rules.enum.v)>>
    ELSE <<>>

\* the enum validation
EnumErrors(field, rules, value) ==
    IF rules.enum.def /\ ~Includes(rules.enum.v, value)
    THEN <<Field(field) \o " must be one of: " \o Join(rules.enum.v)>>
    ELSE <<>>

\* the length validations of an array
ArrayErrors(field, rules, value) ==
    IF rules.type = "array" /\ IsArray(value)
    THEN (IF Truthy(rules.minLength) /\ Len(value.a) < rules.minLength.v
          THEN <<Field(field) \o " must have at least " \o ToString(rules.minLength.v) \o " items">>
          ELSE <<>>)
         \o (IF Truthy(rules.maxLength) /\ Len(value.a) > rules.maxLength.v
             THEN <<Field(field) \o " must have at most " \o ToString(rules.maxLength.v) \o " items">>
             ELSE <<>>)
    ELSE <<>>

\* itemRules.required && (itemValue === undefined || itemValue === null)
ItemRequiredFails(itemRules, itemValue) ==
    itemRules.required /\ (itemValue = Undefined \/ itemValue = Null)

\* the checks of one nested field of one element
ItemFieldErrors(addr, itemRules, itemValue) ==
    IF ItemRequiredFails(itemRules, itemValue)
    THEN <<Field(addr) \o " is required">>
    ELSE (IF itemValue # Undefined /\ itemRules.type # ""
          THEN validateType(itemValue, itemRules.type, addr).errs
          ELSE <<>>)
         \o NumberErrors(addr, itemRules, itemValue)

\* the inner for loop of the forEach callback, from the k-th nested field on
RECURSIVE ItemErrors(_, _, _, _, _)
ItemErrors(field, index, item, items, k) ==
    IF k > Len(items) THEN <<>>
    ELSE ItemFieldErrors(ItemAddr(field, index, items[k][1]), items[k][2],
                         GetProp(item, items[k][1]))
         \o ItemErrors(field, index, item, items, k + 1)

(***************************************************************************)
(* The middleware returned by validateRequest(schema).                     *)
(***************************************************************************)
\* the current entry of Object.entries(schema)
CurField == schema[fi][1]

CurRules == schema[fi][2]

CurValue == body[CurField]

InLoop == pc = "field" /\ fi <= Len(schema)

\* what one finished run leaves behind
Result(n, s) == [input |-> payload, nextCalls |-> n, sent |-> s, body |-> body]

\* let items = [...] (routes/items.js)
ItemsInitial ==
    << [id |-> 1, name |-> Str("Learn Express"), completed |-> Bool(FALSE)],
       [id |-> 2, name |-> Str("Build an API"), completed |-> Bool(FALSE)] >>

\* let products = [...] (routes/products.js): the id and the stock of each
ProductsInitial ==
    << [id |-> 1, stock |-> Num(50)],
       [id |-> 2, stock |-> Num(120)],
       [id |-> 3, stock |-> Num(200)] >>

\* let orders = [...] (routes/orders.js): the id and the status of each
OrdersInitial == << [id |-> 1, status |-> "completed"] >>

\* no request has been answered yet
NoReply == [status |-> 0, error |-> "", task |-> [op |-> "", id |-> 0, arg |-> Undefined]]

\* the stores as the modules create them
StoreInit ==
    /\ itemStore = ItemsInitial
    /\ products = ProductsInitial
    /\ orders = OrdersInitial
    /\ tasks = EmptyBag
    /\ reply = NoReply

Init ==
    /\ StoreInit
    /\ schema \in Schemas
    /\ payload = [f \in Names(schema) \cup {"extra"} |-> Undefined]
    /\ body = [f \in Names(schema) \cup {"extra"} |-> Undefined]
    /\ errors = <<>>
    /\ pc = "idle"
    /\ fi = 1
    /\ ii = 0
    /\ err = ""
    /\ nextCalls = 0
    /\ sent = <<>>
    /\ history = <<>>

\* the middleware with its errors array created once, outside the request handler
EnterKeepErrors(p) ==
    /\ payload' = p
    /\ body' = p
    /\ errors' = errors
    /\ pc' = "field"
    /\ fi' = 1
    /\ ii' = 0
    /\ err' = ""
    /\ nextCalls' = 0
    /\ sent' = <<>>
    /\ UNCHANGED <<schema, history, storeVars>>

\* the middleware is entered with a request: const errors = []; const body = req.body
Enter(p) ==
    /\ payload' = p
    /\ body' = p
    /\ errors' = <<>>
    /\ pc' = "field"
    /\ fi' = 1
    /\ ii' = 0
    /\ err' = ""
    /\ nextCalls' = 0
    /\ sent' = <<>>
    /\ UNCHANGED <<schema, history, storeVars>>

\* a request arrives
Request ==
    /\ pc = "idle"
    /\ \E p \in Payloads(schema) : Enter(p)

\* a request with an equal body arrives after the first one was answered
RequestAgain ==
    /\ pc = "done"
    /\ Len(history) < MaxRuns
    /\ Enter(payload)

\* the body that passed is validated once more, as it is after the first run
Revalidate ==
    /\ pc = "done"
    /\ Len(history) < MaxRuns
    /\ nextCalls = 1
    /\ Enter(body)

\* the required check leaving the loop (break) instead of going on (continue)
FieldRequiredBreak ==
    /\ InLoop
    /\ RequiredFails(CurRules, CurValue)
    /\ errors' = Append(errors, Field(CurField) \o " is required")
    /\ fi' = Len(schema) + 1
    /\ UNCHANGED <<schema, payload, body, pc, ii, err, nextCalls, sent, history, storeVars>>

\* the required check fails: push and continue
FieldRequired ==
    /\ InLoop
    /\ RequiredFails(CurRules, CurValue)
    /\ errors' = Append(errors, Field(CurField) \o " is required")
    /\ fi' = fi + 1
    /\ UNCHANGED <<schema, payload, body, pc, ii, err, nextCalls, sent, history, storeVars>>

\* the default written only when it is truthy (if (rules.default))
FieldDefaultTruthy ==
    /\ InLoop
    /\ ~RequiredFails(CurRules, CurValue)
    /\ NotProvided(CurRules, CurValue)
    /\ body' = IF CurRules.default \notin {Undefined, Null, Str(""), Num(0), NaN, Bool(FALSE)}
               THEN [body EXCEPT ![CurField] = CurRules.default]
               ELSE body
    /\ fi' = fi + 1
    /\ UNCHANGED <<schema, payload, errors, pc, ii, err, nextCalls, sent, history, storeVars>>

\* the default written as its text (`${rules.default}`) instead of its value
FieldDefaultAsText ==
    /\ InLoop
    /\ ~RequiredFails(CurRules, CurValue)
    /\ NotProvided(CurRules, CurValue)
    /\ body' = IF CurRules.default # Undefined
               THEN [body EXCEPT ![CurField] = Str(Text(CurRules.default))]
               ELSE body
    /\ fi' = fi + 1
    /\ UNCHANGED <<schema, payload, errors, pc, ii, err, nextCalls, sent, history, storeVars>>

\* the field is not provided and not required: write the default, continue
FieldDefault ==
    /\ InLoop
    /\ ~RequiredFails(CurRules, CurValue)
    /\ NotProvided(CurRules, CurValue)
    /\ body' = IF CurRules.default # Undefined
               THEN [body EXCEPT ![CurField] = CurRules.default]
               ELSE body
    /\ fi' = fi + 1
    /\ UNCHANGED <<schema, payload, errors, pc, ii, err, nextCalls, sent, history, storeVars>>

\* the messages of the string, number, email, enum and array length validations
ConstraintErrors(field, rules, value) ==
    StringErrors(field, rules, value)
      \o NumberErrors(field, rules, value)
      \o EmailErrors(field, rules, value)
      \o EnumErrors(field, rules, value)
      \o ArrayErrors(field, rules, value)

\* the value is there
Provided == InLoop /\ ~RequiredFails(CurRules, CurValue) /\ ~NotProvided(CurRules, CurValue)

\* the type check without its continue: the constraint checks still run
FieldTypeMismatchFallsThrough ==
    /\ Provided
    /\ CurRules.type # ""
    /\ ~validateType(CurValue, CurRules.type, CurField).ok
    /\ errors' = errors \o validateType(CurValue, CurRules.type, CurField).errs
                    \o ConstraintErrors(CurField, CurRules, CurValue)
    /\ fi' = fi + 1
    /\ UNCHANGED <<schema, payload, body, pc, ii, err, nextCalls, sent, history, storeVars>>

\* validateType returns false: its message is pushed, continue
FieldTypeMismatch ==
    /\ Provided
    /\ CurRules.type # ""
    /\ ~validateType(CurValue, CurRules.type, CurField).ok
    /\ errors' = errors \o validateType(CurValue, CurRules.type, CurField).errs
    /\ fi' = fi + 1
    /\ UNCHANGED <<schema, payload, body, pc, ii, err, nextCalls, sent, history, storeVars>>

\* value.forEach runs its callback: an array with an items schema and an element
HasItems(rules, value) ==
    rules.type = "array" /\ IsArray(value) /\ rules.items # <<>> /\ Len(value.a) > 0

\* the type matches (or no type is set): the constraint checks of the field
FieldConstraints ==
    /\ Provided
    /\ CurRules.type # "" => validateType(CurValue, CurRules.type, CurField).ok
    /\ errors' = errors \o ConstraintErrors(CurField, CurRules, CurValue)
    /\ IF HasItems(CurRules, CurValue)
       THEN pc' = "items" /\ ii' = 1 /\ fi' = fi
       ELSE pc' = pc /\ ii' = ii /\ fi' = fi + 1
    /\ UNCHANGED <<schema, payload, body, err, nextCalls, sent, history, storeVars>>

\* the element the forEach callback is called with; its index is ii - 1
CurItem == CurValue.a[ii]

\* the callback reads item[itemField] of a null or undefined element: TypeError
ItemThrow ==
    /\ pc = "items"
    /\ PropThrows(CurItem)
    /\ pc' = "threw"
    /\ err' = "Cannot read properties of " \o CurItem.t
                \o " (reading '" \o CurRules.items[1][1] \o "')"
    /\ UNCHANGED <<schema, payload, body, errors, fi, ii, nextCalls, sent, history, storeVars>>

\* the callback addressing its element by a position counted from 1
ItemCallbackOneBased ==
    /\ pc = "items"
    /\ ~PropThrows(CurItem)
    /\ errors' = errors \o ItemErrors(CurField, ii, CurItem, CurRules.items, 1)
    /\ IF ii < Len(CurValue.a)
       THEN pc' = pc /\ ii' = ii + 1 /\ fi' = fi
       ELSE pc' = "field" /\ ii' = 0 /\ fi' = fi + 1
    /\ UNCHANGED <<schema, payload, body, err, nextCalls, sent, history, storeVars>>

\* the callback checks every nested field of the element
ItemCallback ==
    /\ pc = "items"
    /\ ~PropThrows(CurItem)
    /\ errors' = errors \o ItemErrors(CurField, ii - 1, CurItem, CurRules.items, 1)
    /\ IF ii < Len(CurValue.a)
       THEN pc' = pc /\ ii' = ii + 1 /\ fi' = fi
       ELSE pc' = "field" /\ ii' = 0 /\ fi' = fi + 1
    /\ UNCHANGED <<schema, payload, body, err, nextCalls, sent, history, storeVars>>

\* a rejection that hands the body back as it was received
RejectDiscardsDefaults ==
    /\ pc = "field"
    /\ fi > Len(schema)
    /\ Len(errors) > 0
    /\ sent' = Append(sent, [status |-> 400, error |-> "Validation failed", details |-> errors])
    /\ pc' = "done"
    /\ body' = payload
    /\ history' = Append(history, Result(nextCalls, sent'))
    /\ UNCHANGED <<schema, payload, errors, fi, ii, err, nextCalls, storeVars>>

\* errors.length > 0: res.status(400).json({error, details})
Reject ==
    /\ pc = "field"
    /\ fi > Len(schema)
    /\ Len(errors) > 0
    /\ sent' = Append(sent, [status |-> 400, error |-> "Validation failed", details |-> errors])
    /\ pc' = "done"
    /\ history' = Append(history, Result(nextCalls, sent'))
    /\ UNCHANGED <<schema, payload, body, errors, fi, ii, err, nextCalls, storeVars>>

\* no error: next()
CallNext ==
    /\ pc = "field"
    /\ fi > Len(schema)
    /\ Len(errors) = 0
    /\ nextCalls' = nextCalls + 1
    /\ pc' = "done"
    /\ history' = Append(history, Result(nextCalls', sent))
    /\ UNCHANGED <<schema, payload, body, errors, fi, ii, err, sent, storeVars>>

\* the exception reaches errorHandler: res.status(err.status || 500).json({error: err.message})
errorHandler ==
    /\ pc = "threw"
    /\ sent' = Append(sent, [status |-> 500, error |-> err, details |-> <<>>])
    /\ pc' = "done"
    /\ history' = Append(history, Result(nextCalls, sent'))
    /\ UNCHANGED <<schema, payload, body, errors, fi, ii, err, nextCalls, storeVars>>

Next ==
    \/ Request
    \/ RequestAgain
    \/ Revalidate
    \/ FieldRequired
    \/ FieldDefault
    \/ FieldTypeMismatch
    \/ FieldConstraints
    \/ ItemThrow
    \/ ItemCallback
    \/ Reject
    \/ CallNext
    \/ errorHandler

Spec == Init /\ [][Next]_vars

(***************************************************************************)
(* Vocabulary of the properties.                                           *)
(***************************************************************************)
\* the run has ended
Done == pc = "done"

\* the run has ended and the middleware returned (it did not throw)
Returned == pc = "done" /\ err = ""

StartsWith(m, p) == Len(m) >= Len(p) /\ SubSeq(m, 1, Len(p)) = p

\* the message is about exactly this address
IsFor(m, addr) == StartsWith(m, Field(addr) \o " ")

\* the message is about this top-level field or about one of its elements
IsUnder(m, field) == IsFor(m, field) \/ StartsWith(m, "Field '" \o field \o "[")

\* the message is about the element at this index of the field
IsAtIndex(m, field, index) ==
    StartsWith(m, "Field '" \o field \o "[" \o ToString(index) \o "].")

MsgsFor(addr) == SelectSeq(errors, LAMBDA m : IsFor(m, addr))

MsgsUnder(field) == SelectSeq(errors, LAMBDA m : IsUnder(m, field))

Count(m) == Cardinality({p \in DOMAIN errors : errors[p] = m})

Contains(m) == \E p \in DOMAIN errors : errors[p] = m

\* the value was received as absent, null or the empty string
Missing(v) == v.t \in {"undefined", "null"} \/ (v.t = "string" /\ v.s = "")

\* the value does not have the shape the type names
WrongShape(type, v) ==
    CASE type = "string" -> v.t # "string"
      [] type = "email" -> v.t # "string"
      [] type = "number" -> v.t # "number"
      [] type = "boolean" -> v.t # "boolean"
      [] type = "array" -> v.t # "array"
      [] type = "object" -> v.t # "object"
      [] OTHER -> FALSE

\* the message of a failed type check
TypeMessage(addr, type) ==
    CASE type = "string" -> Field(addr) \o " must be a string"
      [] type = "email" -> Field(addr) \o " must be a string"
      [] type = "number" -> Field(addr) \o " must be a number"
      [] type = "boolean" -> Field(addr) \o " must be a boolean"
      [] type = "array" -> Field(addr) \o " must be an array"
      [] type = "object" -> Field(addr) \o " must be an object"

\* C1: a run of the middleware never throws, whatever the payload holds
\* (null, undefined or non-object array elements included).
C1_NeverThrows == pc # "threw"

\* C2: a run ends in exactly one of two ways: next() called once and nothing
\* sent, exactly when the error list is empty; or the 400 response
\* {error: 'Validation failed', details: errors} sent once and next() never called.
C2_ExactlyOneOutcome ==
    Done =>
      \/ /\ errors = <<>>
         /\ nextCalls = 1
         /\ sent = <<>>
      \/ /\ errors # <<>>
         /\ nextCalls = 0
         /\ sent = <<[status |-> 400, error |-> "Validation failed", details |-> errors]>>

\* every message one element after the other produces, from element i on
RECURSIVE ElementsErrors(_, _, _, _)
ElementsErrors(field, items, a, i) ==
    IF i > Len(a) THEN <<>>
    ELSE ItemErrors(field, i - 1, a[i], items, 1) \o ElementsErrors(field, items, a, i + 1)

\* the violations of the k-th schema field in the payload as it was received,
\* taken on its own
ViolationsOf(k) ==
    LET field == schema[k][1]
        rules == schema[k][2]
        value == payload[field]
    IN  IF rules.required /\ Missing(value) THEN <<Field(field) \o " is required">>
        ELSE IF value = Undefined THEN <<>>
        ELSE IF rules.type # "" /\ ~validateType(value, rules.type, field).ok
             THEN validateType(value, rules.type, field).errs
        ELSE ConstraintErrors(field, rules, value)
               \o (IF HasItems(rules, value)
                   THEN ElementsErrors(field, rules.items, value.a, 1)
                   ELSE <<>>)

\* the schema field a message is about
FieldIndex(m) == CHOOSE k \in DOMAIN schema : IsUnder(m, schema[k][1])

\* C3: the returned error list holds the violations of every schema field and
\* of every nested item, whatever failed in the fields before it, and the
\* messages of an earlier schema field precede those of a later one.
C3_AllViolationsInSchemaOrder ==
    Returned =>
      /\ \A k \in DOMAIN schema : MsgsUnder(schema[k][1]) = ViolationsOf(k)
      /\ \A p \in DOMAIN errors : \E k \in DOMAIN schema : IsUnder(errors[p], schema[k][1])
      /\ \A p, q \in DOMAIN errors : p < q => FieldIndex(errors[p]) <= FieldIndex(errors[q])

\* C3 witness: a required failure on the first field, a type failure on the
\* second and an enum failure on the third are all reported, in schema order
C3_Witness ==
    /\ Returned
    /\ schema = usersPostSchema
    /\ errors = <<"Field 'username' is required",
                  "Field 'email' must be a string",
                  "Field 'role' must be one of: user, admin">>

\* C4: a required top-level field received absent, null or '' has exactly one
\* message, "Field '<field>' is required", and no other message; its default
\* is not written; for every declared type.
C4_RequiredShortCircuits ==
    Returned =>
      \A k \in DOMAIN schema :
        LET field == schema[k][1]
            rules == schema[k][2]
        IN  rules.required /\ Missing(payload[field]) =>
              /\ MsgsUnder(field) = <<"Field '" \o field \o "' is required">>
              /\ body[field] = payload[field]

\* C4 witness: the empty string on the required email field
C4_Witness ==
    /\ Returned
    /\ schema = usersPostSchema
    /\ payload["email"] = Str("")
    /\ MsgsUnder("email") = <<"Field 'email' is required">>

\* C5: an absent, not required top-level field with a default holds the
\* default after the call and has no message; without a default it stays
\* absent and has no message.
C5_DefaultInjected ==
    Returned =>
      \A k \in DOMAIN schema :
        LET field == schema[k][1]
            rules == schema[k][2]
        IN  payload[field] = Undefined /\ ~rules.required =>
              /\ body[field] = rules.default
              /\ MsgsUnder(field) = <<>>

\* C5 witness: the default 0 of level is written although meta is rejected
C5_Witness ==
    /\ Returned
    /\ schema = levelSchema
    /\ payload["level"] = Undefined
    /\ body["level"] = Num(0)
    /\ errors = <<"Field 'meta' is required">>

\* the value of a top-level field was received and passed the required check
Present(rules, value) == value # Undefined /\ ~(rules.required /\ Missing(value))

SixTypes == {"string", "number", "boolean", "array", "object", "email"}

\* C6: a present value that fails the type check of its rule has exactly one
\* message, the type message, and no length, pattern, min/max, email-format,
\* enum or nested-item message.
C6_TypeMismatchShortCircuits ==
    Returned =>
      \A k \in DOMAIN schema :
        LET field == schema[k][1]
            rules == schema[k][2]
        IN  /\ Present(rules, payload[field])
            /\ rules.type \in SixTypes
            /\ WrongShape(rules.type, payload[field])
            => MsgsUnder(field) = <<TypeMessage(field, rules.type)>>

\* C6 witness: a string where a number with min and max is declared
C6_Witness ==
    /\ Returned
    /\ schema = levelSchema
    /\ payload["level"] = Str("ab")
    /\ errors = <<"Field 'level' must be a number">>

\* C7: a present value that passes the type check of a rule with an enum has
\* the message "Field '<field>' must be one of: <values joined by ', '>"
\* exactly once when it is not a member, and not at all when it is.
C7_EnumMessage ==
    Returned =>
      \A k \in DOMAIN schema :
        LET field == schema[k][1]
            rules == schema[k][2]
            value == payload[field]
            member == \E e \in DOMAIN rules.enum.v : rules.enum.v[e] = value
            message == "Field '" \o field \o "' must be one of: " \o Join(rules.enum.v)
        IN  /\ rules.enum.def
            /\ Present(rules, value)
            /\ ~WrongShape(rules.type, value)
            => Count(message) = (IF member THEN 0 ELSE 1)

\* C7 witness: a status that is a string but not one of the four
C7_Witness ==
    /\ Returned
    /\ schema = statusPatchSchema
    /\ payload["status"] = Str("ab")
    /\ errors = <<"Field 'status' must be one of: pending, processing, completed, cancelled">>

\* the array fields that carry a nested schema and received an array
NestedFields ==
    {k \in DOMAIN schema :
        /\ schema[k][2].type = "array"
        /\ schema[k][2].items # <<>>
        /\ payload[schema[k][1]].t = "array"}

\* C8: a violation in the element at zero-based position i for nested field f
\* is reported as "Field '<field>[i].<f>' ...", the messages of element i
\* precede those of element i+1, and a nested number below min (above max)
\* has "must be at least <min>" ("must be at most <max>") at that address.
C8_NestedAddressing ==
    Returned =>
      \A k \in NestedFields :
        LET field == schema[k][1]
            items == schema[k][2].items
            a == payload[field].a
        IN  /\ \A i \in DOMAIN a, j \in DOMAIN items :
                 LET addr == field \o "[" \o ToString(i - 1) \o "]." \o items[j][1]
                     value == GetProp(a[i], items[j][1])
                 IN  /\ MsgsFor(addr) = ItemFieldErrors(addr, items[j][2], value)
                     /\ value.t = "number" /\ items[j][2].type = "number"
                          /\ items[j][2].min.def /\ value.n < items[j][2].min.v
                        => Contains("Field '" \o addr \o "' must be at least "
                                      \o ToString(items[j][2].min.v))
                     /\ value.t = "number" /\ items[j][2].type = "number"
                          /\ items[j][2].max.def /\ value.n > items[j][2].max.v
                        => Contains("Field '" \o addr \o "' must be at most "
                                      \o ToString(items[j][2].max.v))
            /\ \A p \in DOMAIN errors, i \in 0..Len(errors) :
                 IsAtIndex(errors[p], field, i) => i < Len(a)
            /\ \A p, q \in DOMAIN errors, i, j \in 0..Len(a) :
                 p < q /\ IsAtIndex(errors[p], field, i) /\ IsAtIndex(errors[q], field, j)
                 => i <= j

\* C8 witness: items: [{quantity: 0}, {quantity: 0}] against min 1
C8_Witness ==
    /\ Returned
    /\ schema = lineItemsSchema
    /\ errors = <<"Field 'items[0].quantity' must be at least 1",
                  "Field 'items[1].quantity' must be at least 1">>

\* C9: inside array items a required nested field that is absent, null or ''
\* has exactly the one message "Field '<field>[<index>].<itemField>' is
\* required", and a nested value that fails its type check has exactly the one
\* type message.
C9_NestedLikeTopLevel ==
    Returned =>
      \A k \in NestedFields :
        LET field == schema[k][1]
            items == schema[k][2].items
            a == payload[field].a
        IN  \A i \in DOMAIN a, j \in DOMAIN items :
              LET addr == field \o "[" \o ToString(i - 1) \o "]." \o items[j][1]
                  rules == items[j][2]
                  value == GetProp(a[i], items[j][1])
              IN  /\ rules.required /\ Missing(value)
                     => MsgsFor(addr) = <<"Field '" \o addr \o "' is required">>
                  /\ Present(rules, value) /\ WrongShape(rules.type, value)
                     => MsgsFor(addr) = <<TypeMessage(addr, rules.type)>>

\* C10: runs on equal (schema, payload) inputs end the same way, with the
\* same messages in the same order and the same resulting payload.
C10_Deterministic ==
    \A i, j \in DOMAIN history :
        history[i].input = history[j].input => history[i] = history[j]

\* C10 witness: a second run that rejected a payload with two violations
C10_Witness ==
    /\ Len(history) >= 2
    /\ Len(history[2].sent) = 1
    /\ history[2].sent[1].status = 400
    /\ Len(history[2].sent[1].details) >= 2

\* C11: writing a default is the only change the validator makes to the
\* payload: a field that was present before the call (null values, rejected
\* values, arrays and fields the schema does not name included) keeps its
\* value, and a field is added only when it is an absent, not required schema
\* field, and then with its default.
C11_OnlyDefaultsWritten ==
    \A f \in DOMAIN payload :
      /\ payload[f] # Undefined => body[f] = payload[f]
      /\ payload[f] = Undefined /\ body[f] # Undefined
         => \E k \in DOMAIN schema :
              /\ schema[k][1] = f
              /\ ~schema[k][2].required
              /\ schema[k][2].default = body[f]

\* C11 witness: role is added, the null username and the unnamed field stay
C11_Witness ==
    /\ Returned
    /\ schema = usersPostSchema
    /\ payload["username"] = Null /\ body["username"] = Null
    /\ payload["extra"] = Str("ab") /\ body["extra"] = Str("ab")
    /\ payload["role"] = Undefined /\ body["role"] = Str("user")

\* C12: minLength and maxLength bound the length (characters of a string,
\* elements of an array) for every non-negative bound, 0 included: a length
\* above maxLength always has the 'at most' message, a length below minLength
\* always has the 'at least' message, a length within both has neither.
C12_LengthBounds ==
    Returned =>
      \A k \in DOMAIN schema :
        LET field == schema[k][1]
            rules == schema[k][2]
            value == payload[field]
            length == IF rules.type = "string" THEN Len(value.s) ELSE Len(value.a)
            atLeast == IF rules.type = "string"
                       THEN "Field '" \o field \o "' must be at least "
                              \o ToString(rules.minLength.v) \o " characters"
                       ELSE "Field '" \o field \o "' must have at least "
                              \o ToString(rules.minLength.v) \o " items"
            atMost == IF rules.type = "string"
                      THEN "Field '" \o field \o "' must be at most "
                             \o ToString(rules.maxLength.v) \o " characters"
                      ELSE "Field '" \o field \o "' must have at most "
                             \o ToString(rules.maxLength.v) \o " items"
        IN  /\ rules.type \in {"string", "array"}
            /\ Present(rules, value)
            /\ ~WrongShape(rules.type, value)
            => /\ rules.minLength.def => (Contains(atLeast) <=> length < rules.minLength.v)
               /\ rules.maxLength.def => (Contains(atMost) <=> length > rules.maxLength.v)

\* the present values of the email fields, with their message
EmailFields ==
    {k \in DOMAIN schema :
        schema[k][2].type = "email" /\ Present(schema[k][2], payload[schema[k][1]])}

EmailMessage(k) == "Field '" \o schema[k][1] \o "' must be a valid email address"

\* C13 as claimed: a string that does not match the email pattern has the
\* email-format message, a value that is not a string has that message too
\* (with or instead of the type message), a matching string has none.
C13_EmailAlsoForNonStrings ==
    Returned =>
      \A k \in EmailFields :
        LET value == payload[schema[k][1]]
        IN  /\ value.t = "string" /\ ~emailRegex(value.s) => Contains(EmailMessage(k))
            /\ value.t # "string" => Contains(EmailMessage(k))
            /\ value.t = "string" /\ emailRegex(value.s) => ~Contains(EmailMessage(k))

\* C13 as amended: a string that does not match has the email-format message,
\* a matching string has none, and a value that is not a string has the type
\* message "must be a string" alone, without the email-format message.
C13_EmailOnlyForStrings ==
    Returned =>
      \A k \in EmailFields :
        LET value == payload[schema[k][1]]
        IN  /\ value.t = "string" /\ ~emailRegex(value.s) => Contains(EmailMessage(k))
            /\ value.t # "string"
               => MsgsUnder(schema[k][1]) = <<"Field '" \o schema[k][1] \o "' must be a string">>
            /\ value.t = "string" /\ emailRegex(value.s) => ~Contains(EmailMessage(k))

\* C13 witness: a string without '@' on the email field
C13_Witness ==
    /\ Returned
    /\ schema = usersPostSchema
    /\ payload["email"] = Str("ab")
    /\ MsgsUnder("email") = <<"Field 'email' must be a valid email address">>

\* the run n of the history validated the body that run n - 1 had accepted
Revalidated(n) ==
    /\ n \in 2..Len(history)
    /\ history[n - 1].nextCalls = 1
    /\ history[n].input = history[n - 1].body

\* the run accepted its body and left it as it was
AcceptedUnchanged(n) ==
    /\ history[n].nextCalls = 1
    /\ history[n].sent = <<>>
    /\ history[n].body = history[n].input

\* C17 as claimed: for every schema, a body the validator accepted (with the
\* defaults it wrote) is accepted again and left unchanged by a second run.
C17_IdempotentOnAccepted ==
    \A n \in DOMAIN history : Revalidated(n) => AcceptedUnchanged(n)

\* the value passes every check of the rule
MeetsRule(field, rules, value) ==
    /\ ~WrongShape(rules.type, value)
    /\ validateType(value, rules.type, field).ok
    /\ ConstraintErrors(field, rules, value) = <<>>
    /\ HasItems(rules, value) =>
         /\ \A i \in DOMAIN value.a : ~PropThrows(value.a[i])
         /\ ElementsErrors(field, rules.items, value.a, 1) = <<>>

\* every default of the schema passes the checks of its own rule
DefaultsConform ==
    \A k \in DOMAIN schema :
        schema[k][2].default # Undefined
        => MeetsRule(schema[k][1], schema[k][2], schema[k][2].default)

\* C17 as amended: for every schema whose defaults pass the checks of their
\* own rule, a body the validator accepted is accepted again and left
\* unchanged by a second run.
C17_IdempotentWithConformingDefaults ==
    DefaultsConform => \A n \in DOMAIN history : Revalidated(n) => AcceptedUnchanged(n)

\* C17 witness: the second run accepts the body with the injected role
C17_Witness ==
    /\ schema = usersPostSchema
    /\ Len(history) = 2
    /\ history[1].input["role"] = Undefined
    /\ history[1].body["role"] = Str("user")
    /\ Revalidated(2)
    /\ AcceptedUnchanged(2)

\* C18: an absent, not required field with a default holds the default after
\* the call also when the call ends with the 400 response because of other
\* fields, earlier or later in the schema: the rejected body is not the body
\* that was received.
C18_DefaultsOnRejection ==
    Returned /\ Len(sent) = 1 /\ sent[1].status = 400 =>
      \A k \in DOMAIN schema :
        LET field == schema[k][1]
            rules == schema[k][2]
        IN  payload[field] = Undefined /\ ~rules.required /\ rules.default # Undefined
            => body[field] = rules.default /\ body # payload

\* C18 witness: quota gets its default although the later field note is rejected
C18_Witness ==
    /\ Returned
    /\ schema = notesSchema
    /\ payload["quota"] = Undefined
    /\ body["quota"] = Num(-1)
    /\ sent = <<[status |-> 400, error |-> "Validation failed",
                 details |-> <<"Field 'note' must be a string">>]>>

(***************************************************************************)
(* The routes and their in-memory stores.  In the specifications of the    *)
(* routes the validator's own variables stay as ValidatorOff leaves them.  *)
(***************************************************************************)
ValidatorOff ==
    /\ schema = <<>>
    /\ payload = <<>>
    /\ body = <<>>
    /\ errors = <<>>
    /\ pc = "off"
    /\ fi = 1
    /\ ii = 0
    /\ err = ""
    /\ nextCalls = 0
    /\ sent = <<>>
    /\ history = <<>>

\* the id a request names in its path: parseInt(req.params.id)
Ids == 1..(MaxStore + 1)

\* store.findIndex(r => r.id === id), counted from 1; 0 when there is none
FindIndex(store, id) ==
    IF \E i \in DOMAIN store : store[i].id = id
    THEN CHOOSE i \in DOMAIN store :
           store[i].id = id /\ \A j \in DOMAIN store : store[j].id = id => i <= j
    ELSE 0

\* store.splice(index, 1)
Splice(store, index) ==
    SubSeq(store, 1, index - 1) \o SubSeq(store, index + 1, Len(store))

\* !value
Falsy(v) ==
    \/ v.t \in {"undefined", "null", "NaN"}
    \/ v.t = "string" /\ v.s = ""
    \/ v.t \in {"number", "boolean"} /\ v.n = 0

Answer(status, error, op, id, arg) ==
    [status |-> status, error |-> error, task |-> [op |-> op, id |-> id, arg |-> arg]]

(***************************************************************************)
(* routes/items.js                                                         *)
(***************************************************************************)
\* GET /items/:id
ItemsGet(id) ==
    /\ reply' = IF FindIndex(itemStore, id) = 0
                THEN Answer(404, "Item not found", "GET /items/:id", id, Undefined)
                ELSE Answer(200, "", "GET /items/:id", id, Undefined)
    /\ UNCHANGED <<itemStore, products, orders, tasks, validatorVars>>

\* POST /items
ItemsPost(name) ==
    /\ Len(itemStore) < MaxStore
    /\ IF Falsy(name)
       THEN /\ reply' = Answer(400, "Name is required", "POST /items", 0, name)
            /\ itemStore' = itemStore
       ELSE /\ itemStore' = Append(itemStore,
                              [id |-> Len(itemStore) + 1, name |-> name, completed |-> Bool(FALSE)])
            /\ reply' = Answer(201, "", "POST /items", 0, name)
    /\ UNCHANGED <<products, orders, tasks, validatorVars>>

\* PUT /items/:id
ItemsPut(id, name, completed) ==
    /\ LET index == FindIndex(itemStore, id)
       IN  IF index = 0
           THEN /\ reply' = Answer(404, "Item not found", "PUT /items/:id", id, name)
                /\ itemStore' = itemStore
           ELSE /\ itemStore' =
                     [itemStore EXCEPT
                        ![index].name = IF name # Undefined THEN name ELSE @,
                        ![index].completed = IF completed # Undefined THEN completed ELSE @]
                /\ reply' = Answer(200, "", "PUT /items/:id", id, name)
    /\ UNCHANGED <<products, orders, tasks, validatorVars>>

\* DELETE /items/:id
ItemsDelete(id) ==
    /\ LET index == FindIndex(itemStore, id)
       IN  IF index = 0
           THEN /\ reply' = Answer(404, "Item not found", "DELETE /items/:id", id, Undefined)
                /\ itemStore' = itemStore
           ELSE /\ itemStore' = Splice(itemStore, index)
                /\ reply' = Answer(204, "", "DELETE /items/:id", id, Undefined)
    /\ UNCHANGED <<products, orders, tasks, validatorVars>>

ItemsInit == StoreInit /\ ValidatorOff

ItemsNext ==
    \/ \E id \in Ids : ItemsGet(id)
    \/ \E name \in {Undefined, Str(""), Str("ab")} : ItemsPost(name)
    \/ \E id \in Ids, name \in {Undefined, Str("cd")}, completed \in {Undefined, Bool(TRUE)} :
         ItemsPut(id, name, completed)
    \/ \E id \in Ids : ItemsDelete(id)

SpecItems == ItemsInit /\ [][ItemsNext]_vars

\* C15: after any sequence of POST /items and DELETE /items/:id requests no
\* two items of the store have the same id.
C15_ItemIdsUnique ==
    \A i, j \in DOMAIN itemStore : i # j => itemStore[i].id # itemStore[j].id

(***************************************************************************)
(* validateRequest run from its first statement to its last, as the routes *)
(* run it before their handlers.                                           *)
(***************************************************************************)
\* the messages one schema entry pushes
EntryErrors(field, rules, value) ==
    IF RequiredFails(rules, value) THEN <<Field(field) \o " is required">>
    ELSE IF NotProvided(rules, value) THEN <<>>
    ELSE IF rules.type # "" /\ ~validateType(value, rules.type, field).ok
         THEN validateType(value, rules.type, field).errs
    ELSE ConstraintErrors(field, rules, value)
           \o (IF HasItems(rules, value)
               THEN ElementsErrors(field, rules.items, value.a, 1)
               ELSE <<>>)

\* the messages of the entries from the k-th on
RECURSIVE RunErrors(_, _, _)
RunErrors(sch, p, k) ==
    IF k > Len(sch) THEN <<>>
    ELSE EntryErrors(sch[k][1], sch[k][2], p[sch[k][1]]) \o RunErrors(sch, p, k + 1)

\* req.body after a run that does not throw
RunBody(sch, p) ==
    [f \in DOMAIN p |->
       IF \E k \in DOMAIN sch :
            /\ sch[k][1] = f
            /\ ~RequiredFails(sch[k][2], p[f])
            /\ NotProvided(sch[k][2], p[f])
            /\ sch[k][2].default # Undefined
       THEN sch[CHOOSE k \in DOMAIN sch : sch[k][1] = f][2].default
       ELSE p[f]]

\* the forEach callback reads a property of null or undefined
RunThrows(sch, p) ==
    \E k \in DOMAIN sch :
      LET rules == sch[k][2]
          value == p[sch[k][1]]
      IN  /\ ~RequiredFails(rules, value)
          /\ ~NotProvided(rules, value)
          /\ validateType(value, rules.type, sch[k][1]).ok
          /\ HasItems(rules, value)
          /\ \E i \in DOMAIN value.a : PropThrows(value.a[i])

\* how the run ends: 0 when next() is called and the handler runs, else the
\* status of the response
RunStatus(sch, p) ==
    IF RunThrows(sch, p) THEN 500
    ELSE IF RunErrors(sch, p, 1) # <<>> THEN 400
    ELSE 0

(***************************************************************************)
(* routes/products.js                                                      *)
(***************************************************************************)
\* POST /products
productsPostSchema ==
    << <<"name", [Rule EXCEPT !.type = "string", !.minLength = Some(1), !.required = TRUE]>>,
       <<"price", [Rule EXCEPT !.type = "number", !.min = Some(0), !.required = TRUE]>>,
       <<"category", [Rule EXCEPT !.type = "string", !.minLength = Some(1), !.required = TRUE]>>,
       <<"stock", [Rule EXCEPT !.type = "number", !.min = Some(0), !.default = Num(0)]>> >>

\* PUT /products/:id
productsPutSchema ==
    << <<"name", [Rule EXCEPT !.type = "string", !.minLength = Some(1), !.required = TRUE]>>,
       <<"price", [Rule EXCEPT !.type = "number", !.min = Some(0), !.required = TRUE]>>,
       <<"category", [Rule EXCEPT !.type = "string", !.minLength = Some(1), !.required = TRUE]>>,
       <<"stock", [Rule EXCEPT !.type = "number", !.min = Some(0), !.required = TRUE]>> >>

\* the bodies of POST /products and PUT /products/:id
ProductBodies ==
    [name : {Str("ab")}, price : {Num(2)}, category : {Str("ab")},
     stock : {Undefined, Num(-1), Num(0), Infinity}]

\* the bodies of PATCH /products/:id/stock
StockBodies == [amount : {Undefined, Num(-100), Infinity, NegInfinity}]

\* a + b of two numbers
Plus(a, b) ==
    IF a.t = "NaN" \/ b.t = "NaN" THEN NaN
    ELSE IF a.t = "Infinity" /\ b.t = "Infinity" THEN (IF a.n = b.n THEN a ELSE NaN)
    ELSE IF a.t = "Infinity" THEN a
    ELSE IF b.t = "Infinity" THEN b
    ELSE Num(a.n + b.n)

\* Math.max(...store.map(r => r.id), 0)
MaxId(store) ==
    IF store = <<>> THEN 0
    ELSE CHOOSE m \in {store[i].id : i \in DOMAIN store} :
           \A i \in DOMAIN store : store[i].id <= m

\* POST /products
ProductsPost(b) ==
    /\ Len(products) < MaxStore
    /\ MaxId(products) + 1 \in Ids
    /\ IF RunStatus(productsPostSchema, b) # 0
       THEN /\ reply' = Answer(400, "Validation failed", "POST /products", 0, Undefined)
            /\ products' = products
       ELSE LET stock == RunBody(productsPostSchema, b).stock
            IN  /\ products' = Append(products,
                                 [id |-> MaxId(products) + 1,
                                  stock |-> IF stock = Undefined THEN Num(0) ELSE stock])
                /\ reply' = Answer(201, "", "POST /products", 0, Undefined)
    /\ UNCHANGED <<itemStore, orders, tasks, validatorVars>>

\* PUT /products/:id
ProductsPut(id, b) ==
    /\ LET productIndex == FindIndex(products, id)
       IN  IF RunStatus(productsPutSchema, b) # 0
           THEN /\ reply' = Answer(400, "Validation failed", "PUT /products/:id", id, Undefined)
                /\ products' = products
           ELSE IF productIndex = 0
           THEN /\ reply' = Answer(404, "Product not found", "PUT /products/:id", id, Undefined)
                /\ products' = products
           ELSE /\ products' = [products EXCEPT
                                  ![productIndex].stock = RunBody(productsPutSchema, b).stock]
                /\ reply' = Answer(200, "", "PUT /products/:id", id, Undefined)
    /\ UNCHANGED <<itemStore, orders, tasks, validatorVars>>

\* PATCH /products/:id/stock
ProductsPatchStock(id, b) ==
    /\ LET index == FindIndex(products, id)
           amount == RunBody(stockPatchSchema, b).amount
           newStock == Plus(products[index].stock, amount)
       IN  IF RunStatus(stockPatchSchema, b) # 0
           THEN /\ reply' = Answer(400, "Validation failed", "PATCH /products/:id/stock", id, Undefined)
                /\ products' = products
           ELSE IF index = 0
           THEN /\ reply' = Answer(404, "Product not found", "PATCH /products/:id/stock", id, Undefined)
                /\ products' = products
           ELSE IF Less(newStock, 0)
           THEN /\ reply' = Answer(400, "Insufficient stock", "PATCH /products/:id/stock", id, Undefined)
                /\ products' = products
           ELSE /\ products' = [products EXCEPT ![index].stock = newStock]
                /\ reply' = Answer(200, "", "PATCH /products/:id/stock", id, Undefined)
    /\ UNCHANGED <<itemStore, orders, tasks, validatorVars>>

\* DELETE /products/:id
ProductsDelete(id) ==
    /\ LET productIndex == FindIndex(products, id)
       IN  IF productIndex = 0
           THEN /\ reply' = Answer(404, "Product not found", "DELETE /products/:id", id, Undefined)
                /\ products' = products
           ELSE /\ products' = Splice(products, productIndex)
                /\ reply' = Answer(204, "", "DELETE /products/:id", id, Undefined)
    /\ UNCHANGED <<itemStore, orders, tasks, validatorVars>>

ProductsInit == StoreInit /\ ValidatorOff

ProductsNext ==
    \/ \E b \in ProductBodies : ProductsPost(b)
    \/ \E id \in Ids, b \in ProductBodies : ProductsPut(id, b)
    \/ \E id \in Ids, b \in StockBodies : ProductsPatchStock(id, b)
    \/ \E id \in Ids : ProductsDelete(id)

SpecProducts == ProductsInit /\ [][ProductsNext]_vars

\* C16: after any sequence of validated POST /products, PUT /products/:id,
\* PATCH /products/:id/stock and DELETE /products/:id requests every product
\* of the store has a stock >= 0.
C16_StockNonNegative ==
    \A i \in DOMAIN products :
      \/ products[i].stock.t = "number" /\ products[i].stock.n >= 0
      \/ products[i].stock = Infinity

(***************************************************************************)
(* routes/orders.js.  An async handler runs to its await, is suspended as  *)
(* a task, and runs from the await to its end when the timer fires; the    *)
(* suspended handlers resume in any order.                                 *)
(***************************************************************************)
\* the id a request names in its path: an order of the store, or one that is
\* not created yet
OrderIds == 1..MaxOrders

\* the bodies of POST /orders
OrderBodies ==
    [userId : {Num(1)},
     items : {Arr(<<>>),
              Arr(<<ElemObj([productId |-> Num(1), quantity |-> Num(1), price |-> Num(2)])>>),
              Arr(<<ElemNull({"productId", "quantity", "price"})>>)}]

\* the bodies of PATCH /orders/:id/status
StatusBodies ==
    [status : {Undefined, Str("shipped"), Str("pending"), Str("processing"),
               Str("completed"), Str("cancelled")}]

validTransitions ==
    [pending |-> {"processing", "cancelled"},
     processing |-> {"completed", "cancelled"},
     completed |-> {},
     cancelled |-> {}]

\* the message of the TypeError of a run that throws
RunThrown(sch, p) ==
    LET k == CHOOSE j \in DOMAIN sch :
               /\ HasItems(sch[j][2], p[sch[j][1]])
               /\ \E i \in DOMAIN p[sch[j][1]].a : PropThrows(p[sch[j][1]].a[i])
        a == p[sch[k][1]].a
        i == CHOOSE n \in DOMAIN a : PropThrows(a[n]) /\ \A m \in DOMAIN a : PropThrows(a[m]) => n <= m
    IN  "Cannot read properties of " \o a[i].t \o " (reading '" \o sch[k][2].items[1][1] \o "')"

\* a handler at its await
Task(op, id, arg) == [op |-> op, id |-> id, arg |-> arg]

\* await new Promise(resolve => setTimeout(resolve, 10))
Suspend(task) ==
    /\ BagCardinality(tasks) < MaxPending
    /\ tasks' = tasks (+) SetToBag({task})
    /\ reply' = reply

\* the timer fires
Resume(task) ==
    /\ BagIn(task, tasks)
    /\ tasks' = tasks (-) SetToBag({task})

\* POST /orders, to the await
OrdersPost(b) ==
    /\ IF RunStatus(ordersPostSchema, b) = 500
       THEN /\ reply' = Answer(500, RunThrown(ordersPostSchema, b), "POST /orders", 0, Undefined)
            /\ tasks' = tasks
       ELSE IF RunStatus(ordersPostSchema, b) = 400
       THEN /\ reply' = Answer(400, "Validation failed", "POST /orders", 0, Undefined)
            /\ tasks' = tasks
       ELSE Suspend(Task("POST /orders", 0, Undefined))
    /\ UNCHANGED <<itemStore, products, orders, validatorVars>>

\* POST /orders, from the await
ResumePost(task) ==
    /\ task.op = "POST /orders"
    /\ Resume(task)
    /\ Len(orders) < MaxOrders
    /\ orders' = Append(orders, [id |-> MaxId(orders) + 1, status |-> "pending"])
    /\ reply' = Answer(201, "", task.op, task.id, Undefined)
    /\ UNCHANGED <<itemStore, products, validatorVars>>

\* PATCH /orders/:id/status, to the await
OrdersPatchStatus(id, b) ==
    /\ IF RunStatus(statusPatchSchema, b) # 0
       THEN /\ reply' = Answer(400, "Validation failed", "PATCH /orders/:id/status", id, Undefined)
            /\ tasks' = tasks
       ELSE Suspend(Task("PATCH /orders/:id/status", id, RunBody(statusPatchSchema, b).status))
    /\ UNCHANGED <<itemStore, products, orders, validatorVars>>

\* PATCH /orders/:id/status, from the await
ResumePatchStatus(task) ==
    /\ task.op = "PATCH /orders/:id/status"
    /\ Resume(task)
    /\ LET index == FindIndex(orders, task.id)
       IN  IF index = 0
           THEN /\ reply' = Answer(404, "Order not found", task.op, task.id, Undefined)
                /\ orders' = orders
           ELSE IF task.arg.s \notin validTransitions[orders[index].status]
           THEN /\ reply' = Answer(400, "Invalid status transition", task.op, task.id, Undefined)
                /\ orders' = orders
           ELSE /\ orders' = [orders EXCEPT ![index].status = task.arg.s]
                /\ reply' = Answer(200, "", task.op, task.id, Undefined)
    /\ UNCHANGED <<itemStore, products, validatorVars>>

\* DELETE /orders/:id, to the await
OrdersDelete(id) ==
    /\ Suspend(Task("DELETE /orders/:id", id, Undefined))
    /\ UNCHANGED <<itemStore, products, orders, validatorVars>>

\* DELETE /orders/:id from the await, without the check for a completed order
ResumeDeleteCompleted(task) ==
    /\ task.op = "DELETE /orders/:id"
    /\ Resume(task)
    /\ LET index == FindIndex(orders, task.id)
       IN  IF index = 0
           THEN /\ reply' = Answer(404, "Order not found", task.op, task.id, Undefined)
                /\ orders' = orders
           ELSE IF orders[index].status = "cancelled"
           THEN /\ reply' = Answer(400, "Order already cancelled", task.op, task.id, Undefined)
                /\ orders' = orders
           ELSE /\ orders' = [orders EXCEPT ![index].status = "cancelled"]
                /\ reply' = Answer(200, "", task.op, task.id, Undefined)
    /\ UNCHANGED <<itemStore, products, validatorVars>>

\* DELETE /orders/:id, from the await
ResumeDelete(task) ==
    /\ task.op = "DELETE /orders/:id"
    /\ Resume(task)
    /\ LET index == FindIndex(orders, task.id)
       IN  IF index = 0
           THEN /\ reply' = Answer(404, "Order not found", task.op, task.id, Undefined)
                /\ orders' = orders
           ELSE IF orders[index].status = "completed"
           THEN /\ reply' = Answer(400, "Cannot cancel completed order", task.op, task.id, Undefined)
                /\ orders' = orders
           ELSE IF orders[index].status = "cancelled"
           THEN /\ reply' = Answer(400, "Order already cancelled", task.op, task.id, Undefined)
                /\ orders' = orders
           ELSE /\ orders' = [orders EXCEPT ![index].status = "cancelled"]
                /\ reply' = Answer(200, "", task.op, task.id, Undefined)
    /\ UNCHANGED <<itemStore, products, validatorVars>>

OrdersInit == StoreInit /\ ValidatorOff

OrdersNext ==
    \/ \E b \in OrderBodies : OrdersPost(b)
    \/ \E id \in OrderIds, b \in StatusBodies : OrdersPatchStatus(id, b)
    \/ \E id \in OrderIds : OrdersDelete(id)
    \/ \E task \in BagToSet(tasks) : ResumePost(task)
    \/ \E task \in BagToSet(tasks) : ResumePatchStatus(task)
    \/ \E task \in BagToSet(tasks) : ResumeDelete(task)

SpecOrders == OrdersInit /\ [][OrdersNext]_vars

\* the handler suspended as `task` runs from its await to its end in this step
Resumed(task) ==
    /\ BagIn(task, tasks)
    /\ tasks' = tasks (-) SetToBag({task})

\* the status changes of the claim
Allowed ==
    {<<"pending", "processing">>, <<"pending", "cancelled">>,
     <<"processing", "completed">>, <<"processing", "cancelled">>}

\* C14: under every interleaving of PATCH /orders/:id/status and DELETE
\* /orders/:id requests, each suspended once before it reads the order, the
\* status of an order changes only from pending to processing or cancelled and
\* from processing to completed or cancelled; a request that finds its order
\* completed or cancelled is answered 400 and changes nothing; a PATCH for a
\* change that is not one of these four is answered 400 'Invalid status
\* transition' and changes nothing.
C14_StatusTransitions ==
    [][/\ Len(orders') >= Len(orders)
       /\ \A k \in DOMAIN orders :
            /\ orders'[k].id = orders[k].id
            /\ \/ orders'[k].status = orders[k].status
               \/ <<orders[k].status, orders'[k].status>> \in Allowed
       /\ \A task \in BagToSet(tasks) :
            Resumed(task) /\ task.op \in {"PATCH /orders/:id/status", "DELETE /orders/:id"}
            => \A k \in DOMAIN orders :
                 orders[k].id = task.id
                 => /\ orders[k].status \in {"completed", "cancelled"}
                       => reply'.status = 400 /\ orders' = orders
                    /\ task.op = "PATCH /orders/:id/status"
                         /\ <<orders[k].status, task.arg.s>> \notin Allowed
                       => /\ reply'.status = 400
                          /\ reply'.error = "Invalid status transition"
                          /\ orders' = orders]_vars

\* C14 witness: a PATCH that found its order already cancelled was answered
\* 400 'Invalid status transition' while another handler is still suspended
C14_Witness ==
    /\ tasks # EmptyBag
    /\ reply.status = 400
    /\ reply.error = "Invalid status transition"
    /\ reply.task.op = "PATCH /orders/:id/status"
    /\ \E k \in DOMAIN orders :
         orders[k].id = reply.task.id /\ orders[k].id > 1 /\ orders[k].status = "cancelled"

====
